---- MODULE Spec2Model ----
(***************************************************************************)
(* Model of phi/llm/gemini/gemini.py: the streaming response assembler     *)
(* (delta merger and tool-call indexer), the call executor run_function    *)
(* and the recursive orchestration loop response / response_stream.        *)
(*                                                                         *)
(* Representation.  A Python str is a sequence of one-token strings, so    *)
(* that += is \o and a split is a SubSeq.  An Optional[T] is a sequence of *)
(* length 0 (None) or 1 (the value), so that None, "" and [] stay distinct.*)
(***************************************************************************)
EXTENDS Integers, Sequences, FiniteSets, TLC

None == <<>>
Some(x) == <<x>>
IsNone(o) == o = <<>>
Val(o) == o[1]

Min(a, b) == IF a < b THEN a ELSE b

(***************************************************************************)
(* Bounds of the model.                                                    *)
(***************************************************************************)
\* Largest configured function_call_limit explored.
MaxLimit == 1
\* Depth at which the interpreter refuses another nested response(...) call
\* (stand-in for Python's recursion limit, scaled down).
RecursionLimit == 3
\* Longest fragment sequence of one streamed round explored by StreamSpec.
MaxFragments == 3

VARIABLES
    mode,                 \* "batch" (response) or "stream" (response_stream)
    function_call_limit,  \* self.function_call_limit
    show_tool_calls,      \* self.show_tool_calls
    run_tools,            \* self.run_tools
    pc,                   \* position of the run
    messages,             \* the history list passed down the recursion
    assistant_message,    \* the assistant message of the current round
    function_call_stack,  \* self.function_call_stack (None until first use)
    metrics,              \* self.metrics
    tool_choice,          \* self.tool_choice
    output,               \* text returned (batch) or yielded (stream) so far
    function_calls_to_run,\* local list of the tool-calls branch
    stream,               \* fragments the iterator of invoke_stream still holds
    assistant_message_content,
    assistant_message_function_name,
    assistant_message_function_arguments_str,
    assistant_message_tool_calls,
    completion_tokens,
    rounds,               \* model invocations made so far (= nesting depth)
    executions,           \* calls of FunctionCall.execute() made so far
    pulled                \* fragments pulled in the current round, in order

config == <<mode, function_call_limit, show_tool_calls, run_tools>>
locals == <<assistant_message_content, assistant_message_function_name,
            assistant_message_function_arguments_str,
            assistant_message_tool_calls, completion_tokens, stream, pulled>>
vars == <<mode, function_call_limit, show_tool_calls, run_tools, pc, messages,
          assistant_message, function_call_stack, metrics, tool_choice, output,
          function_calls_to_run, stream, assistant_message_content,
          assistant_message_function_name,
          assistant_message_function_arguments_str,
          assistant_message_tool_calls, completion_tokens, rounds, executions,
          pulled>>

(***************************************************************************)
(* Messages (phi.llm.message.Message as constructed in gemini.py).         *)
(***************************************************************************)
Message(role, content, name, function_call, tool_calls, tool_call_id) ==
    [role |-> role, content |-> content, name |-> name,
     function_call |-> function_call, tool_calls |-> tool_calls,
     tool_call_id |-> tool_call_id]

\* Literal texts of the source, each one token.
NotFoundText == <<"Could not find function to call.">>
NameIsNoneText == <<"Function name is None.">>
FallbackText == <<"Something went wrong, please try again.">>
LimitExceededText(limit) == <<"Function call limit (", ToString(limit), ") exceeded.">>

(***************************************************************************)
(* Tool-call indexer: lines 426-463 (response_stream), 598-635             *)
(* (generate_stream).  The two copies are textually the same algorithm.    *)
(***************************************************************************)
\* list.insert(i, x): positions past the end append.
ListInsert(list, i, x) ==
    LET k == Min(i, Len(list))
    IN  SubSeq(list, 1, k) \o <<x>> \o SubSeq(list, k + 1, Len(list))

\* Fields read off one ChoiceDeltaToolCall (lines 430-436).
DeltaFunctionName(tc) == IF IsNone(tc.function) THEN None ELSE Val(tc.function).name
DeltaFunctionArguments(tc) ==
    IF IsNone(tc.function) THEN None ELSE Val(tc.function).arguments

\* Lines 440-452: the record created for an index seen for the first time.
NewToolCallDict(tc) ==
    [id |-> tc.id,
     type |-> tc.type,
     function |->
        IF ~IsNone(DeltaFunctionName(tc)) \/ ~IsNone(DeltaFunctionArguments(tc))
        THEN Some([name |-> DeltaFunctionName(tc),
                   arguments |-> DeltaFunctionArguments(tc)])
        ELSE None]

\* Lines 455-458 raise TypeError when += meets None: the record has no
\* function dict, or the field being extended is None.
MergeRaises(rec, tc) ==
    \/ /\ ~IsNone(DeltaFunctionName(tc))
       /\ (IsNone(rec.function) \/ IsNone(Val(rec.function).name))
    \/ /\ ~IsNone(DeltaFunctionArguments(tc))
       /\ (IsNone(rec.function) \/ IsNone(Val(rec.function).arguments))

\* A faulty merge that assigns the piece instead of appending it (= for +=).
MergeFunctionAssigning(fn, tc) ==
    [name |-> IF IsNone(DeltaFunctionName(tc)) THEN fn.name
              ELSE DeltaFunctionName(tc),
     arguments |-> IF IsNone(DeltaFunctionArguments(tc)) THEN fn.arguments
                   ELSE DeltaFunctionArguments(tc)]

\* Lines 455-458: name and arguments are extended by concatenation.
MergeFunction(fn, tc) ==
    [name |-> IF IsNone(DeltaFunctionName(tc)) THEN fn.name
              ELSE Some(Val(fn.name) \o Val(DeltaFunctionName(tc))),
     arguments |-> IF IsNone(DeltaFunctionArguments(tc)) THEN fn.arguments
                   ELSE Some(Val(fn.arguments) \o Val(DeltaFunctionArguments(tc)))]

\* Lines 455-462: the merge of a fragment into the record found at its index.
MergeToolCallDict(rec, tc) ==
    [id |-> IF IsNone(tc.id) THEN rec.id ELSE tc.id,
     type |-> IF IsNone(tc.type) THEN rec.type ELSE tc.type,
     function |-> IF IsNone(rec.function) THEN None
                  ELSE Some(MergeFunction(Val(rec.function), tc))]

\* Line 438: the record at _index exists iff the list is longer than _index.
HasToolCallAtIndex(tool_calls, index) == Len(tool_calls) > index

\* One iteration of the loop at line 429: acc = [raised, tool_calls].
IndexToolCall(acc, tc) ==
    IF acc.raised THEN acc
    ELSE IF ~HasToolCallAtIndex(acc.tool_calls, tc.index)
    THEN [acc EXCEPT !.tool_calls = ListInsert(@, tc.index, NewToolCallDict(tc))]
    ELSE IF MergeRaises(acc.tool_calls[tc.index + 1], tc)
    THEN [acc EXCEPT !.raised = TRUE]
    ELSE [acc EXCEPT !.tool_calls[tc.index + 1] = MergeToolCallDict(@, tc)]

RECURSIVE BuildFrom(_, _)
BuildFrom(acc, deltas) ==
    IF deltas = <<>> THEN acc
    ELSE BuildFrom(IndexToolCall(acc, Head(deltas)), Tail(deltas))

\* Lines 428-463: the whole loop over the collected fragments.
BuildToolCalls(deltas) == BuildFrom([raised |-> FALSE, tool_calls |-> <<>>], deltas)

(***************************************************************************)
(* Function registry and resolver.  get_function_call,                     *)
(* get_function_call_for_tool_call and FunctionCall live in phi.utils and  *)
(* phi.tools, outside this file; they follow the resolver contract.        *)
(***************************************************************************)
\* self.functions: the names the registry knows.
Functions == {<<"f">>}

\* A raw argument string decodes unless it holds the token "!".
ArgumentsDecode(arguments) ==
    IsNone(arguments) \/ \A i \in 1..Len(Val(arguments)) : Val(arguments)[i] # "!"

ArgumentErrorText == <<"Could not parse arguments.">>

\* get_function_call(name, arguments, functions): None when the name is not
\* registered, else a FunctionCall, carrying an error when decoding fails.
GetFunctionCall(name, arguments, call_id) ==
    IF name \notin Functions THEN None
    ELSE Some([name |-> name, arguments |-> arguments, call_id |-> call_id,
               error |-> IF ArgumentsDecode(arguments) THEN None
                         ELSE Some(ArgumentErrorText)])

\* get_function_call_for_tool_call(tool_call, functions).
GetFunctionCallForToolCall(tool_call) ==
    IF IsNone(tool_call.function) \/ IsNone(Val(tool_call.function).name) THEN None
    ELSE GetFunctionCall(Val(Val(tool_call.function).name),
                         Val(tool_call.function).arguments, tool_call.id)

\* FunctionCall.execute() leaves its result, coerced to text, in .result.
ExecuteResult(fc) == <<"result of ">> \o fc.name

\* FunctionCall.get_call_str().
CallStr(fc) ==
    fc.name \o <<"(">> \o (IF IsNone(fc.arguments) THEN <<>> ELSE Val(fc.arguments))
            \o <<")">>

\* Timer.elapsed: the measured value is not modelled.
Elapsed == "t"

(***************************************************************************)
(* Metrics accumulator self.metrics: a dict, each key absent until set.    *)
(***************************************************************************)
EmptyMetrics ==
    [response_times |-> None, function_call_times |-> None,
     prompt_tokens |-> None, completion_tokens |-> None, total_tokens |-> None]

\* Lines 217-219 (response), 468-470 (response_stream).
AddResponseTime(m) ==
    [m EXCEPT !.response_times =
        Some((IF IsNone(@) THEN <<>> ELSE Val(@)) \o <<Elapsed>>)]

\* A faulty accumulator with "=" for the "+=" of lines 479, 485 and 491: the
\* last round's count replaces the total.
AddTokensOverwriting(old, v) == Some(v)

\* "if key not in self.metrics: self.metrics[key] = v else: += v".
AddTokens(old, v) == IF IsNone(old) THEN Some(v) ELSE Some(Val(old) + v)

\* Lines 222-243 (response): usage may be absent; 474-491 (response_stream).
AddUsage(m, usage) ==
    IF IsNone(usage) THEN m
    ELSE [m EXCEPT !.prompt_tokens = AddTokens(@, Val(usage).prompt_tokens),
                   !.completion_tokens = AddTokens(@, Val(usage).completion_tokens),
                   !.total_tokens = AddTokens(@, Val(usage).total_tokens)]

\* A faulty accumulator that resets the function's list at every execution.
AddFunctionCallTimeResetting(m, name) ==
    LET d == IF IsNone(m.function_call_times) THEN <<>>
             ELSE Val(m.function_call_times)
    IN  [m EXCEPT !.function_call_times =
            Some([n \in (DOMAIN d) \cup {name} |->
                    IF n = name THEN <<Elapsed>> ELSE d[n]])]

\* Lines 175-179: one elapsed time appended under the function's name.
AddFunctionCallTime(m, name) ==
    LET d == IF IsNone(m.function_call_times) THEN <<>>
             ELSE Val(m.function_call_times)
        old == IF name \in DOMAIN d THEN d[name] ELSE <<>>
    IN  [m EXCEPT !.function_call_times =
            Some([n \in (DOMAIN d) \cup {name} |->
                    IF n = name THEN Append(old, Elapsed) ELSE d[n]])]

StackLen(stack) == IF IsNone(stack) THEN 0 ELSE Len(Val(stack))

(***************************************************************************)
(* Call executor: run_function, lines 140-181.                             *)
(***************************************************************************)
\* Line 157: the limit check.
LimitExceeded(stack, limit) == StackLen(stack) > limit

\* A faulty execution without the append of line 164: the call is executed
\* and timed and the stack is left as it was.
ExecuteCallWithoutPush(st, fc, role) ==
    [message |-> Message(role, Some(ExecuteResult(fc)), Some(fc.name), None, None,
                         IF role = "tool" THEN fc.call_id ELSE None),
     function_call |-> Some(fc),
     stack |-> IF IsNone(st.stack) THEN Some(<<>>) ELSE st.stack,
     metrics |-> AddFunctionCallTime(st.metrics, fc.name),
     tool_choice |-> st.tool_choice,
     executed |-> TRUE]

\* Lines 164-180: the call is pushed, executed and timed.
ExecuteCall(st, fc, role) ==
    [message |-> Message(role, Some(ExecuteResult(fc)), Some(fc.name), None, None,
                         IF role = "tool" THEN fc.call_id ELSE None),
     function_call |-> Some(fc),
     stack |-> Some((IF IsNone(st.stack) THEN <<>> ELSE Val(st.stack)) \o <<fc>>),
     metrics |-> AddFunctionCallTime(st.metrics, fc.name),
     tool_choice |-> st.tool_choice,
     executed |-> TRUE]

\* A faulty refusal without line 158: tool_choice is left as it was.
RefuseCallKeepingToolChoice(st, fc, role, limit) ==
    [message |-> Message(role, Some(LimitExceededText(limit)), None, None, None,
                         IF role = "tool" THEN fc.call_id ELSE None),
     function_call |-> Some(fc),
     stack |-> IF IsNone(st.stack) THEN Some(<<>>) ELSE st.stack,
     metrics |-> st.metrics,
     tool_choice |-> st.tool_choice,
     executed |-> FALSE]

\* A faulty refusal taken after the push of line 164: the refused call stays
\* on the stack.
RefuseCallAfterPush(st, fc, role, limit) ==
    [message |-> Message(role, Some(LimitExceededText(limit)), None, None, None,
                         IF role = "tool" THEN fc.call_id ELSE None),
     function_call |-> Some(fc),
     stack |-> Some((IF IsNone(st.stack) THEN <<>> ELSE Val(st.stack)) \o <<fc>>),
     metrics |-> st.metrics,
     tool_choice |-> Some("none"),
     executed |-> FALSE]

\* Lines 157-161: the refusal.
RefuseCall(st, fc, role, limit) ==
    [message |-> Message(role, Some(LimitExceededText(limit)), None, None, None,
                         IF role = "tool" THEN fc.call_id ELSE None),
     function_call |-> Some(fc),
     stack |-> IF IsNone(st.stack) THEN Some(<<>>) ELSE st.stack,
     metrics |-> st.metrics,
     tool_choice |-> Some("none"),
     executed |-> FALSE]

\* A faulty early return that labels its message with the role of the
\* tool-calls path.
NoCallWithToolRole(st, text, fc) ==
    [message |-> Message("tool", Some(text), None, None, None, None),
     function_call |-> fc,
     stack |-> st.stack, metrics |-> st.metrics, tool_choice |-> st.tool_choice,
     executed |-> FALSE]

\* Outcome of run_function that leaves the executor state alone.
NoCall(st, text, fc) ==
    [message |-> Message("function", Some(text), None, None, None, None),
     function_call |-> fc,
     stack |-> st.stack, metrics |-> st.metrics, tool_choice |-> st.tool_choice,
     executed |-> FALSE]

\* A faulty executor that falls through to line 181 when the name does not
\* resolve, reporting "Function name is None." for it.
RunFunctionFallingThrough(st, function_call, limit) ==
    IF IsNone(function_call.name)
    THEN NoCall(st, NameIsNoneText, None)
    ELSE LET fc == GetFunctionCall(Val(function_call.name),
                                   function_call.arguments, None)
         IN  IF IsNone(fc) THEN NoCall(st, NameIsNoneText, None)
             ELSE IF ~IsNone(Val(fc).error)
             THEN NoCall(st, Val(Val(fc).error), fc)
             ELSE IF LimitExceeded(st.stack, limit)
             THEN RefuseCall(st, Val(fc), "function", limit)
             ELSE ExecuteCall(st, Val(fc), "function")

\* run_function(function_call), st = [stack, metrics, tool_choice].
RunFunction(st, function_call, limit) ==
    IF IsNone(function_call.name)
    THEN NoCall(st, NameIsNoneText, None)
    ELSE LET fc == GetFunctionCall(Val(function_call.name),
                                   function_call.arguments, None)
         IN  IF IsNone(fc) THEN NoCall(st, NotFoundText, None)
             ELSE IF ~IsNone(Val(fc).error)
             THEN NoCall(st, Val(Val(fc).error), fc)
             ELSE IF LimitExceeded(st.stack, limit)
             THEN RefuseCall(st, Val(fc), "function", limit)
             ELSE ExecuteCall(st, Val(fc), "function")

\* LLM.run_function_calls(function_calls) of phi.llm.base, outside this file:
\* the executor contract applied to each resolved call in order, the result
\* messages carrying role "tool" and the call's id.
RECURSIVE RunFunctionCalls(_, _, _)
RunFunctionCalls(acc, function_calls, limit) ==
    IF function_calls = <<>> THEN acc
    ELSE LET fc == Head(function_calls)
             st == [stack |-> acc.stack, metrics |-> acc.metrics,
                    tool_choice |-> acc.tool_choice]
             r == IF LimitExceeded(acc.stack, limit)
                  THEN RefuseCall(st, fc, "tool", limit)
                  ELSE ExecuteCall(st, fc, "tool")
         IN  RunFunctionCalls(
                [results |-> Append(acc.results, r.message),
                 stack |-> r.stack, metrics |-> r.metrics,
                 tool_choice |-> r.tool_choice,
                 executed |-> acc.executed + (IF r.executed THEN 1 ELSE 0)],
                Tail(function_calls), limit)

(***************************************************************************)
(* What the model endpoint may answer (invoke, lines 125-130, and          *)
(* invoke_stream, lines 132-138).  The endpoint is free: it may request    *)
(* calls in any round, whatever tool_choice says.                          *)
(***************************************************************************)
FunctionCallDict(name, arguments) ==
    [name |-> Some(name), arguments |-> Some(arguments)]

ToolCallDict(id, name, arguments) ==
    [id |-> Some(id), type |-> Some("function"),
     function |-> Some(FunctionCallDict(name, arguments))]

Usage(p, c) == Some([prompt_tokens |-> p, completion_tokens |-> c,
                     total_tokens |-> p + c])

ModelResponse(content, function_call, tool_calls, usage) ==
    [content |-> content, function_call |-> function_call,
     tool_calls |-> tool_calls, usage |-> usage]

\* The complete messages one round may return.
ModelResponses ==
    { ModelResponse(Some(<<"a", "b">>), None, None, Usage(1, 1)),
      ModelResponse(None, None, None, None),
      ModelResponse(None, Some(FunctionCallDict(<<"f">>, <<"x">>)), None, Usage(1, 1)),
      ModelResponse(None, Some(FunctionCallDict(<<"g">>, <<"x">>)), None, Usage(1, 1)),
      ModelResponse(None, Some(FunctionCallDict(<<"f">>, <<"!">>)), None, Usage(1, 1)),
      ModelResponse(None, Some([name |-> None, arguments |-> Some(<<"x">>)]), None,
                    Usage(1, 1)),
      ModelResponse(None, None, Some(<<ToolCallDict(<<"c1">>, <<"f">>, <<"x">>)>>),
                    Usage(1, 1)),
      ModelResponse(None, None, Some(<<ToolCallDict(<<"c1">>, <<"f">>, <<"x">>),
                                       ToolCallDict(<<"c2">>, <<"f">>, <<"y">>)>>),
                    Usage(1, 1)),
      ModelResponse(None, None, Some(<<ToolCallDict(<<"c1">>, <<"g">>, <<"x">>),
                                       ToolCallDict(<<"c2">>, <<"f">>, <<"!">>)>>),
                    Usage(1, 1)),
      ModelResponse(None, None, Some(<<>>), Usage(1, 1)),
      ModelResponse(Some(<<"a">>), Some(FunctionCallDict(<<"f">>, <<"x">>)),
                    Some(<<ToolCallDict(<<"c1">>, <<"f">>, <<"x">>)>>), Usage(1, 1)) }

Fragment(content, function_call, tool_calls) ==
    [content |-> content, function_call |-> function_call, tool_calls |-> tool_calls]

ToolCallDelta(index, id, type, function) ==
    [index |-> index, id |-> id, type |-> type, function |-> function]

RECURSIVE Flatten(_)
Flatten(seqs) == IF seqs = <<>> THEN <<>> ELSE Head(seqs) \o Flatten(Tail(seqs))

\* The fragments of a streamed function call: the name with empty arguments
\* first, then the arguments one token at a time.
FunctionCallFragments(fc) ==
    <<Fragment(None, Some([name |-> fc.name, arguments |-> Some(<<>>)]), None)>>
    \o [i \in 1..Len(Val(fc.arguments)) |->
          Fragment(None, Some([name |-> None,
                               arguments |-> Some(<<Val(fc.arguments)[i]>>)]), None)]

\* The fragments of the tool call at list position i + 1 (stream index i).
ToolCallFragments(tc, i) ==
    LET fn == Val(tc.function)
    IN  <<Fragment(None, None,
             Some(<<ToolCallDelta(i, tc.id, tc.type,
                       Some([name |-> fn.name, arguments |-> Some(<<>>)]))>>))>>
        \o [k \in 1..Len(Val(fn.arguments)) |->
              Fragment(None, None,
                 Some(<<ToolCallDelta(i, None, None,
                           Some([name |-> None,
                                 arguments |-> Some(<<Val(fn.arguments)[k]>>)]))>>))]

\* A complete message as the endpoint streams it: content token by token,
\* then the function call, then the tool calls in index order, then a
\* closing fragment that carries nothing.
ToFragments(r) ==
    (IF IsNone(r.content) THEN <<>>
     ELSE [i \in 1..Len(Val(r.content)) |->
             Fragment(Some(<<Val(r.content)[i]>>), None, None)])
    \o (IF IsNone(r.function_call) THEN <<>>
        ELSE FunctionCallFragments(Val(r.function_call)))
    \o (IF IsNone(r.tool_calls) THEN <<>>
        ELSE IF Val(r.tool_calls) = <<>> THEN <<Fragment(None, None, Some(<<>>))>>
        ELSE Flatten([i \in 1..Len(Val(r.tool_calls)) |->
                        ToolCallFragments(Val(r.tool_calls)[i], i - 1)]))
    \o <<Fragment(None, None, None)>>

(***************************************************************************)
(* Initial state: a fresh orchestrator given one user message.             *)
(***************************************************************************)
UserMessage == Message("user", Some(<<"q">>), None, None, None, None)

InitLocals ==
    /\ stream = <<>>
    /\ assistant_message_content = <<>>
    /\ assistant_message_function_name = <<>>
    /\ assistant_message_function_arguments_str = <<>>
    /\ assistant_message_tool_calls = None
    /\ completion_tokens = 0
    /\ pulled = <<>>

InitRun ==
    /\ messages = <<UserMessage>>
    /\ assistant_message = None
    /\ function_call_stack = None
    /\ metrics = EmptyMetrics
    /\ tool_choice = None
    /\ output = <<>>
    /\ function_calls_to_run = <<>>
    /\ rounds = 0
    /\ executions = 0

Init ==
    /\ mode \in {"batch", "stream"}
    /\ function_call_limit \in 0..MaxLimit
    /\ show_tool_calls \in BOOLEAN
    /\ run_tools \in BOOLEAN
    /\ pc = "AwaitingModel"
    /\ InitRun
    /\ InitLocals

(***************************************************************************)
(* Model round, batch: response, lines 183-247.                            *)
(***************************************************************************)
Response ==
    /\ pc = "AwaitingModel"
    /\ mode = "batch"
    /\ rounds < RecursionLimit
    /\ \E r \in ModelResponses :
         LET m == Message("assistant", r.content, None, r.function_call,
                          r.tool_calls, None)
         IN  /\ assistant_message' = Some(m)
             /\ metrics' = AddUsage(AddResponseTime(metrics), r.usage)
             /\ messages' = Append(messages, m)
    /\ rounds' = rounds + 1
    /\ pc' = "HaveAssistantMessage"
    /\ UNCHANGED <<config, locals, function_call_stack, tool_choice, output,
                   function_calls_to_run, executions>>

(***************************************************************************)
(* Model round, streaming: response_stream, lines 369-495.                 *)
(***************************************************************************)
\* Lines 375-382: the buffers are reset and the stream is opened.
StreamStart ==
    /\ pc = "AwaitingModel"
    /\ mode = "stream"
    /\ rounds < RecursionLimit
    /\ \E r \in ModelResponses : stream' = ToFragments(r)
    /\ assistant_message_content' = <<>>
    /\ assistant_message_function_name' = <<>>
    /\ assistant_message_function_arguments_str' = <<>>
    /\ assistant_message_tool_calls' = None
    /\ completion_tokens' = 0
    /\ pulled' = <<>>
    /\ rounds' = rounds + 1
    /\ pc' = "Streaming"
    /\ UNCHANGED <<config, messages, assistant_message, function_call_stack,
                   metrics, tool_choice, output, function_calls_to_run,
                   executions>>

\* Lines 375-378: the buffers before the first fragment.
EmptyBuffers ==
    [content |-> <<>>, function_name |-> <<>>, function_arguments_str |-> <<>>,
     tool_calls |-> None]

\* Lines 392-393, 561-562: the content buffer.
AccumulateContent(buf, frag) ==
    IF IsNone(frag.content) THEN buf ELSE buf \o Val(frag.content)

\* Lines 397-403: the function name and arguments buffers.
AccumulateFunctionName(buf, frag) ==
    IF IsNone(frag.function_call) \/ IsNone(Val(frag.function_call).name)
    THEN buf ELSE buf \o Val(Val(frag.function_call).name)

AccumulateFunctionArguments(buf, frag) ==
    IF IsNone(frag.function_call) \/ IsNone(Val(frag.function_call).arguments)
    THEN buf ELSE buf \o Val(Val(frag.function_call).arguments)

\* Lines 406-409: the collected tool-call fragments.
AccumulateToolCalls(buf, frag) ==
    IF IsNone(frag.tool_calls) THEN buf
    ELSE Some((IF IsNone(buf) THEN <<>> ELSE Val(buf)) \o Val(frag.tool_calls))

\* Lines 392-409: what one fragment does to the buffers.
Accumulate(b, frag) ==
    [content |-> AccumulateContent(b.content, frag),
     function_name |-> AccumulateFunctionName(b.function_name, frag),
     function_arguments_str |->
        AccumulateFunctionArguments(b.function_arguments_str, frag),
     tool_calls |-> AccumulateToolCalls(b.tool_calls, frag)]

Buffers ==
    [content |-> assistant_message_content,
     function_name |-> assistant_message_function_name,
     function_arguments_str |-> assistant_message_function_arguments_str,
     tool_calls |-> assistant_message_tool_calls]

\* Lines 383-409: the body of the loop for one fragment; content is yielded
\* as it arrives (line 394).
Pull(frag) ==
    LET b == Accumulate(Buffers, frag)
    IN  /\ completion_tokens' = completion_tokens + 1
        /\ assistant_message_content' = b.content
        /\ assistant_message_function_name' = b.function_name
        /\ assistant_message_function_arguments_str' = b.function_arguments_str
        /\ assistant_message_tool_calls' = b.tool_calls
        /\ output' = IF IsNone(frag.content) THEN output
                     ELSE output \o Val(frag.content)
        /\ pulled' = Append(pulled, frag)

\* Line 382: the next fragment is pulled off the open stream.
StreamPull ==
    /\ pc = "Streaming"
    /\ stream # <<>>
    /\ Pull(Head(stream))
    /\ stream' = Tail(stream)
    /\ UNCHANGED <<config, pc, messages, assistant_message, function_call_stack,
                   metrics, tool_choice, function_calls_to_run, rounds, executions>>

\* Lines 414-463: the assistant message built from the buffers.
AssembleMessage(b) ==
    Message("assistant",
            IF b.content # <<>> THEN Some(b.content) ELSE None,
            None,
            IF b.function_name # <<>>
            THEN Some(FunctionCallDict(b.function_name, b.function_arguments_str))
            ELSE None,
            IF IsNone(b.tool_calls) THEN None
            ELSE Some(BuildToolCalls(Val(b.tool_calls)).tool_calls),
            None)

\* Lines 455-458 raise out of response_stream when a merge meets None.
AssembleRaises(tool_calls) ==
    ~IsNone(tool_calls) /\ BuildToolCalls(Val(tool_calls)).raised

\* A faulty ending taken inside the loop of line 382: the message is built
\* while fragments are still to come.
StreamEndInsideLoop ==
    /\ pc = "Streaming"
    /\ pulled # <<>>
    /\ IF AssembleRaises(assistant_message_tool_calls)
       THEN /\ pc' = "TypeError"
            /\ UNCHANGED <<assistant_message, metrics, messages>>
       ELSE LET m == AssembleMessage(Buffers)
            IN  /\ assistant_message' = Some(m)
                /\ metrics' = AddUsage(AddResponseTime(metrics),
                                       Usage(0, completion_tokens))
                /\ messages' = Append(messages, m)
                /\ pc' = "HaveAssistantMessage"
    /\ UNCHANGED <<config, locals, function_call_stack, tool_choice, output,
                   function_calls_to_run, rounds, executions>>

\* Lines 411-495: the stream has ended.
StreamEnd ==
    /\ pc = "Streaming"
    /\ stream = <<>>
    /\ IF AssembleRaises(assistant_message_tool_calls)
       THEN /\ pc' = "TypeError"
            /\ UNCHANGED <<assistant_message, metrics, messages>>
       ELSE LET m == AssembleMessage(Buffers)
            IN  /\ assistant_message' = Some(m)
                /\ metrics' = AddUsage(AddResponseTime(metrics),
                                       Usage(0, completion_tokens))
                /\ messages' = Append(messages, m)
                /\ pc' = "HaveAssistantMessage"
    /\ UNCHANGED <<config, locals, function_call_stack, tool_choice, output,
                   function_calls_to_run, rounds, executions>>

(***************************************************************************)
(* After the round: lines 249-296 (response), 497-536 (response_stream).   *)
(***************************************************************************)
\* Lines 250, 498.
NeedToRunFunctions(m) == ~IsNone(m.function_call) \/ ~IsNone(m.tool_calls)

\* Lines 258, 279, 504, 524.
NarrationOne(fc) == <<"\n - Running: ">> \o CallStr(fc) \o <<"\n\n">>

\* Lines 281-284, 526-529.
NarrationMany(fcs) ==
    <<"\nRunning:">>
    \o Flatten([i \in 1..Len(fcs) |-> <<"\n - ">> \o CallStr(fcs[i])])
    \o <<"\n\n">>

\* Lines 257-258, 503-504: the narration of the legacy branch.
LegacyNarration(show, function_call) ==
    IF show /\ ~IsNone(function_call) THEN NarrationOne(Val(function_call))
    ELSE <<>>

\* A faulty narration that uses the list form for a single call as well.
ToolNarrationAlwaysList(show, fcs) ==
    IF ~show \/ fcs = <<>> THEN <<>>
    ELSE NarrationMany(fcs)

\* Lines 277-284, 522-529: the narration of the tool-calls branch.
ToolNarration(show, fcs) ==
    IF ~show \/ fcs = <<>> THEN <<>>
    ELSE IF Len(fcs) = 1 THEN NarrationOne(fcs[1])
    ELSE NarrationMany(fcs)

\* Lines 252-260, 500-506: the legacy single function call.
LegacyCall ==
    /\ pc = "HaveAssistantMessage"
    /\ run_tools
    /\ ~IsNone(Val(assistant_message).function_call)
    /\ LET r == RunFunction([stack |-> function_call_stack, metrics |-> metrics,
                             tool_choice |-> tool_choice],
                            Val(Val(assistant_message).function_call),
                            function_call_limit)
       IN  /\ messages' = Append(messages, r.message)
           /\ function_call_stack' = r.stack
           /\ metrics' = r.metrics
           /\ tool_choice' = r.tool_choice
           /\ executions' = executions + (IF r.executed THEN 1 ELSE 0)
           /\ output' = output \o LegacyNarration(show_tool_calls, r.function_call)
    /\ pc' = "AwaitingModel"
    /\ UNCHANGED <<config, locals, assistant_message, function_calls_to_run, rounds>>

\* A faulty resolver loop without the continue of lines 274 and 519: a call
\* whose resolution carries an error is reported and run as well.
RECURSIVE ResolveAllWithoutContinue(_, _)
ResolveAllWithoutContinue(acc, tool_calls) ==
    IF tool_calls = <<>> THEN acc
    ELSE LET tc == Head(tool_calls)
             fc == GetFunctionCallForToolCall(tc)
         IN  ResolveAllWithoutContinue(
               IF IsNone(fc)
               THEN [acc EXCEPT !.errors =
                       Append(@, Message("tool", Some(NotFoundText), None, None,
                                         None, tc.id))]
               ELSE IF ~IsNone(Val(fc).error)
               THEN [acc EXCEPT !.errors =
                       Append(@, Message("tool", Some(Val(Val(fc).error)), None,
                                         None, None, tc.id)),
                                !.to_run = Append(@, Val(fc))]
               ELSE [acc EXCEPT !.to_run = Append(@, Val(fc))],
               Tail(tool_calls))

\* Lines 264-275, 509-520: acc = [errors, to_run].
RECURSIVE ResolveAll(_, _)
ResolveAll(acc, tool_calls) ==
    IF tool_calls = <<>> THEN acc
    ELSE LET tc == Head(tool_calls)
             fc == GetFunctionCallForToolCall(tc)
         IN  ResolveAll(
               IF IsNone(fc)
               THEN [acc EXCEPT !.errors =
                       Append(@, Message("tool", Some(NotFoundText), None, None,
                                         None, tc.id))]
               ELSE IF ~IsNone(Val(fc).error)
               THEN [acc EXCEPT !.errors =
                       Append(@, Message("tool", Some(Val(Val(fc).error)), None,
                                         None, None, tc.id))]
               ELSE [acc EXCEPT !.to_run = Append(@, Val(fc))],
               Tail(tool_calls))

\* A faulty branch with "if" for the "elif" of lines 261 and 507: the tool
\* calls are resolved whether or not a function call is present.
ResolveToolCallsWithoutElif ==
    /\ pc = "HaveAssistantMessage"
    /\ run_tools
    /\ ~IsNone(Val(assistant_message).tool_calls)
    /\ LET r == ResolveAll([errors |-> <<>>, to_run |-> <<>>],
                           Val(Val(assistant_message).tool_calls))
       IN  /\ messages' = messages \o r.errors
           /\ function_calls_to_run' = r.to_run
           /\ output' = output \o ToolNarration(show_tool_calls, r.to_run)
    /\ pc' = "ExecutingCalls"
    /\ UNCHANGED <<config, locals, assistant_message, function_call_stack,
                   metrics, tool_choice, rounds, executions>>

\* Lines 261-284, 507-529: every tool call is resolved before any is run.
ResolveToolCalls ==
    /\ pc = "HaveAssistantMessage"
    /\ run_tools
    /\ IsNone(Val(assistant_message).function_call)
    /\ ~IsNone(Val(assistant_message).tool_calls)
    /\ LET r == ResolveAll([errors |-> <<>>, to_run |-> <<>>],
                           Val(Val(assistant_message).tool_calls))
       IN  /\ messages' = messages \o r.errors
           /\ function_calls_to_run' = r.to_run
           /\ output' = output \o ToolNarration(show_tool_calls, r.to_run)
    /\ pc' = "ExecutingCalls"
    /\ UNCHANGED <<config, locals, assistant_message, function_call_stack,
                   metrics, tool_choice, rounds, executions>>

\* A faulty executing step without the extend of lines 288 and 533: the calls
\* are run and their result messages are lost.
ExecuteToolCallsDroppingResults ==
    /\ pc = "ExecutingCalls"
    /\ LET r == RunFunctionCalls([results |-> <<>>, stack |-> function_call_stack,
                                  metrics |-> metrics, tool_choice |-> tool_choice,
                                  executed |-> 0],
                                 function_calls_to_run, function_call_limit)
       IN  /\ function_call_stack' = r.stack
           /\ metrics' = r.metrics
           /\ tool_choice' = r.tool_choice
           /\ executions' = executions + r.executed
    /\ function_calls_to_run' = <<>>
    /\ pc' = "AwaitingModel"
    /\ UNCHANGED <<config, locals, assistant_message, output, rounds, messages>>

\* Lines 286-288, 531-533: the resolved calls are run, their results appended.
ExecuteToolCalls ==
    /\ pc = "ExecutingCalls"
    /\ LET r == RunFunctionCalls([results |-> <<>>, stack |-> function_call_stack,
                                  metrics |-> metrics, tool_choice |-> tool_choice,
                                  executed |-> 0],
                                 function_calls_to_run, function_call_limit)
       IN  /\ messages' = messages \o r.results
           /\ function_call_stack' = r.stack
           /\ metrics' = r.metrics
           /\ tool_choice' = r.tool_choice
           /\ executions' = executions + r.executed
    /\ function_calls_to_run' = <<>>
    /\ pc' = "AwaitingModel"
    /\ UNCHANGED <<config, locals, assistant_message, output, rounds>>

\* A faulty ending that returns the fallback string whatever the content.
FinalTextAlwaysFallback(m) == FallbackText

\* Lines 294-296: what response returns when no call is run.
FinalText(m) == IF ~IsNone(m.content) THEN Val(m.content) ELSE FallbackText

\* Line 536: response_stream yields nothing more when no call is run.
FinalYield(m) == <<>>

\* Lines 292-296, 536: the round requested nothing to run.
Return ==
    /\ pc = "HaveAssistantMessage"
    /\ ~(NeedToRunFunctions(Val(assistant_message)) /\ run_tools)
    /\ output' = output \o (IF mode = "batch" THEN FinalText(Val(assistant_message))
                            ELSE FinalYield(Val(assistant_message)))
    /\ pc' = "Terminal"
    /\ UNCHANGED <<config, locals, messages, assistant_message,
                   function_call_stack, metrics, tool_choice,
                   function_calls_to_run, rounds, executions>>

\* Lines 259, 290, 506, 535: every round nests one more call of response /
\* response_stream; at the interpreter's depth limit the call raises.
RaiseRecursionError ==
    /\ pc = "AwaitingModel"
    /\ rounds = RecursionLimit
    /\ pc' = "RecursionError"
    /\ UNCHANGED <<config, locals, messages, assistant_message,
                   function_call_stack, metrics, tool_choice, output,
                   function_calls_to_run, rounds, executions>>

Next ==
    \/ Response
    \/ StreamStart
    \/ StreamPull
    \/ StreamEnd
    \/ LegacyCall
    \/ ResolveToolCalls
    \/ ExecuteToolCalls
    \/ Return
    \/ RaiseRecursionError

Spec == Init /\ [][Next]_vars

\* The interpreter runs the single thread of the run: an enabled step is taken.
FairSpec == Spec /\ WF_vars(Next)

(***************************************************************************)
(* The assembler alone: one streamed round fed arbitrary fragments.        *)
(***************************************************************************)
\* Tool-call fragments for stream index i: a first fragment with id, type,
\* name and arguments; an arguments continuation; a name without arguments;
\* an id without a function part.
ToolCallDeltas(i) ==
    { ToolCallDelta(i, Some(<<"c", ToString(i)>>), Some("function"),
                    Some([name |-> Some(<<"f">>), arguments |-> Some(<<"x">>)])),
      ToolCallDelta(i, None, None,
                    Some([name |-> None, arguments |-> Some(<<"y">>)])),
      ToolCallDelta(i, None, None,
                    Some([name |-> Some(<<"f">>), arguments |-> None])),
      ToolCallDelta(i, Some(<<"d">>), Some("function"), None) }

\* The fragments the endpoint may send, every field optional.
Fragments ==
    { Fragment(Some(<<"a">>), None, None),
      Fragment(Some(<<"b">>), None, None),
      Fragment(None, Some([name |-> Some(<<"f">>), arguments |-> Some(<<"x">>)]), None),
      Fragment(None, Some([name |-> None, arguments |-> Some(<<"y">>)]), None),
      Fragment(None, Some([name |-> Some(<<"f">>), arguments |-> None]), None),
      Fragment(None, None, Some(<<>>)),
      Fragment(None, None, None) }
    \cup { Fragment(None, None, Some(<<d>>)) : d \in ToolCallDeltas(0) \cup ToolCallDeltas(1) }

\* The state inside response_stream right after line 381, first round.
InitStream ==
    /\ mode = "stream"
    /\ function_call_limit = MaxLimit
    /\ show_tool_calls = FALSE
    /\ run_tools = TRUE
    /\ pc = "Streaming"
    /\ messages = <<UserMessage>>
    /\ assistant_message = None
    /\ function_call_stack = None
    /\ metrics = EmptyMetrics
    /\ tool_choice = None
    /\ output = <<>>
    /\ function_calls_to_run = <<>>
    /\ rounds = 1
    /\ executions = 0
    /\ InitLocals

\* Line 382 with a free endpoint: any fragment may come next.
StreamPullAny ==
    /\ pc = "Streaming"
    /\ Len(pulled) < MaxFragments
    /\ \E frag \in Fragments : Pull(frag)
    /\ UNCHANGED <<config, pc, messages, assistant_message, function_call_stack,
                   metrics, tool_choice, function_calls_to_run, rounds,
                   executions, stream>>

StreamNext ==
    \/ StreamPullAny
    \/ StreamEnd

StreamSpec == InitStream /\ [][StreamNext]_vars

(***************************************************************************)
(* Properties of the orchestration loop (Spec, FairSpec).                  *)
(***************************************************************************)
AssistantIndexes == {i \in 1..Len(messages) : messages[i].role = "assistant"}

LastAssistantIndex ==
    CHOOSE i \in AssistantIndexes : \A j \in AssistantIndexes : j <= i

IsLimitMessage(m) ==
    /\ m.role \in {"function", "tool"}
    /\ m.content = Some(LimitExceededText(function_call_limit))

LimitMessageBefore(i) == \E j \in 1..(i - 1) : IsLimitMessage(messages[j])

\* The registered function f requested through the legacy function call.
SelfCall == Some(FunctionCallDict(<<"f">>, <<"x">>))

\* The endpoint of the depth-limit scenario: it requests f again in every
\* round until it has been handed a limit-exceeded result, and requests
\* nothing after that.
SelfRequestingRun ==
    /\ run_tools
    /\ \A i \in AssistantIndexes :
         IF LimitMessageBefore(i)
         THEN ~NeedToRunFunctions(messages[i])
         ELSE messages[i].function_call = SelfCall /\ IsNone(messages[i].tool_calls)

\* C1: a run with call-depth limit N in which the model requests the same
\* registered function again in every round takes at most N+1 model rounds,
\* and once ended its history holds a "Function call limit (N) exceeded."
\* result message.
C1_DepthLimitTermination ==
    SelfRequestingRun =>
        /\ rounds <= function_call_limit + 1
        /\ pc = "Terminal" =>
              \E j \in 1..Len(messages) : IsLimitMessage(messages[j])

\* C2: every run of the orchestration loop ends in the Terminal state,
\* whatever the model answers: a run that has not reached Terminal can
\* still take a step.
C2_RunEndsInTerminal == pc = "Terminal" \/ ENABLED Next

\* C3: the call-depth stack never holds more entries than
\* function_call_limit.
C3_StackWithinLimit == StackLen(function_call_stack) <= function_call_limit

(***************************************************************************)
(* Properties of the delta merger and tool-call indexer (StreamSpec).      *)
(***************************************************************************)
\* The buffers after a whole fragment sequence, and the message built.
RECURSIVE AccumulateAll(_, _)
AccumulateAll(b, frs) ==
    IF frs = <<>> THEN b ELSE AccumulateAll(Accumulate(b, Head(frs)), Tail(frs))

AssembleFragments(frs) == AssembleMessage(AccumulateAll(EmptyBuffers, frs))

\* Every tool-call fragment pulled in the round, in arrival order.
ToolDeltas(frs) ==
    Flatten([i \in 1..Len(frs) |->
               IF IsNone(frs[i].tool_calls) THEN <<>> ELSE Val(frs[i].tool_calls)])

IndexesOf(ds) == {ds[i].index : i \in 1..Len(ds)}

\* Positions of the fragments for one index, and the first of them.
PositionsOf(ds, index) == {i \in 1..Len(ds) : ds[i].index = index}
FirstOf(ds, index) ==
    ds[CHOOSE i \in PositionsOf(ds, index) : \A j \in PositionsOf(ds, index) : i <= j]

\* The name pieces, and the arguments pieces, sent for one index,
\* concatenated in arrival order.
NamePieces(ds, index) ==
    Flatten([i \in 1..Len(ds) |->
               IF ds[i].index = index /\ ~IsNone(DeltaFunctionName(ds[i]))
               THEN Val(DeltaFunctionName(ds[i])) ELSE <<>>])
ArgumentPieces(ds, index) ==
    Flatten([i \in 1..Len(ds) |->
               IF ds[i].index = index /\ ~IsNone(DeltaFunctionArguments(ds[i]))
               THEN Val(DeltaFunctionArguments(ds[i])) ELSE <<>>])

IsContentPiece(fr) ==
    /\ ~IsNone(fr.content) /\ Val(fr.content) # <<>>
    /\ IsNone(fr.function_call) /\ IsNone(fr.tool_calls)
IsFunctionPiece(fr) ==
    IsNone(fr.content) /\ ~IsNone(fr.function_call) /\ IsNone(fr.tool_calls)
IsToolPiece(fr) ==
    /\ IsNone(fr.content) /\ IsNone(fr.function_call)
    /\ ~IsNone(fr.tool_calls) /\ Len(Val(fr.tool_calls)) = 1

\* The fragment sequence is a complete message cut into pieces: each fragment
\* carries one piece; the first fragment of the function call and of each tool
\* call carries the name (and id, type) with the first arguments piece, later
\* ones carry a non-empty arguments piece only; tool calls start in index order.
IsFragmentation(frs) ==
    /\ \A i \in 1..Len(frs) :
         IsContentPiece(frs[i]) \/ IsFunctionPiece(frs[i]) \/ IsToolPiece(frs[i])
    /\ \A i \in 1..Len(frs) : IsFunctionPiece(frs[i]) =>
         LET fc == Val(frs[i].function_call)
         IN  IF \A j \in 1..(i - 1) : ~IsFunctionPiece(frs[j])
             THEN ~IsNone(fc.name) /\ ~IsNone(fc.arguments)
             ELSE IsNone(fc.name) /\ ~IsNone(fc.arguments)
                  /\ Val(fc.arguments) # <<>>
    /\ LET ds == ToolDeltas(frs)
       IN  \A i \in 1..Len(ds) :
             IF \A j \in 1..(i - 1) : ds[j].index # ds[i].index
             THEN /\ ~IsNone(ds[i].id) /\ ~IsNone(ds[i].type)
                  /\ ~IsNone(DeltaFunctionName(ds[i]))
                  /\ ~IsNone(DeltaFunctionArguments(ds[i]))
                  /\ (ds[i].index = 0
                      \/ \E j \in 1..(i - 1) : ds[j].index = ds[i].index - 1)
             ELSE /\ IsNone(ds[i].id) /\ IsNone(ds[i].type)
                  /\ IsNone(DeltaFunctionName(ds[i]))
                  /\ ~IsNone(DeltaFunctionArguments(ds[i]))
                  /\ Val(DeltaFunctionArguments(ds[i])) # <<>>

\* The complete message the pieces were cut from, as one fragment.
Whole(frs) ==
    LET ds == ToolDeltas(frs)
        contents == {i \in 1..Len(frs) : ~IsNone(frs[i].content)}
        calls == {i \in 1..Len(frs) : ~IsNone(frs[i].function_call)}
    IN  Fragment(
          IF contents = {} THEN None
          ELSE Some(AccumulateAll(EmptyBuffers, frs).content),
          IF calls = {} THEN None
          ELSE Some([name |-> Some(AccumulateAll(EmptyBuffers, frs).function_name),
                     arguments |->
                        Some(AccumulateAll(EmptyBuffers, frs).function_arguments_str)]),
          IF ds = <<>> THEN None
          ELSE Some([k \in 1..Cardinality(IndexesOf(ds)) |->
                       ToolCallDelta(k - 1, FirstOf(ds, k - 1).id,
                                     FirstOf(ds, k - 1).type,
                                     Some([name |-> Some(NamePieces(ds, k - 1)),
                                           arguments |->
                                              Some(ArgumentPieces(ds, k - 1))]))]))

OnlyToolPieces(frs) == frs # <<>> /\ \A i \in 1..Len(frs) : IsToolPiece(frs[i])

\* The first fragment of every index carries a name piece and an arguments
\* piece, so no later merge meets an absent field.
FirstsCarryNameAndArguments(ds) ==
    \A index \in IndexesOf(ds) :
        /\ ~IsNone(DeltaFunctionName(FirstOf(ds, index)))
        /\ ~IsNone(DeltaFunctionArguments(FirstOf(ds, index)))

\* The record at list position index holds exactly the pieces of that index.
RecordHoldsIndex(tool_calls, ds, index) ==
    /\ Len(tool_calls) > index
    /\ tool_calls[index + 1].function =
          Some([name |-> Some(NamePieces(ds, index)),
                arguments |-> Some(ArgumentPieces(ds, index))])

\* C5: tool-call fragments for index 0 and index 1 arriving interleaved in
\* any order assemble into exactly two records, the record at position i
\* holding the concatenation, in arrival order, of the name pieces and of the
\* arguments pieces sent for index i.
C5_IndexCorrelation ==
    LET ds == ToolDeltas(pulled)
    IN  (/\ pc # "Streaming"
         /\ OnlyToolPieces(pulled)
         /\ IndexesOf(ds) = {0, 1}
         /\ FirstsCarryNameAndArguments(ds)) =>
            /\ pc = "HaveAssistantMessage"
            /\ Len(Val(Val(assistant_message).tool_calls)) = 2
            /\ \A index \in {0, 1} :
                 RecordHoldsIndex(Val(Val(assistant_message).tool_calls), ds, index)

\* C6: whatever the order in which the indices first appear, the assembled
\* list holds one record per distinct index, and the record at position i
\* holds the pieces of the fragments of index i and of no other.
C6_OneRecordPerIndex ==
    LET ds == ToolDeltas(pulled)
    IN  (/\ pc # "Streaming"
         /\ OnlyToolPieces(pulled)
         /\ IndexesOf(ds) = 0..(Cardinality(IndexesOf(ds)) - 1)
         /\ FirstsCarryNameAndArguments(ds)) =>
            /\ pc = "HaveAssistantMessage"
            /\ Len(Val(Val(assistant_message).tool_calls)) = Cardinality(IndexesOf(ds))
            /\ \A index \in IndexesOf(ds) :
                 RecordHoldsIndex(Val(Val(assistant_message).tool_calls), ds, index)

(***************************************************************************)
(* Properties of the orchestration loop, continued (Spec).                 *)
(***************************************************************************)
NotFoundFunctionMessage == Message("function", Some(NotFoundText), None, None, None, None)
NotFoundToolMessage(id) == Message("tool", Some(NotFoundText), None, None, None, id)

\* The tool calls of a message whose function name is not registered.
UnregisteredToolCalls(m) ==
    {i \in 1..Len(Val(m.tool_calls)) :
        LET fn == Val(m.tool_calls)[i].function
        IN  IsNone(fn) \/ IsNone(Val(fn).name) \/ Val(Val(fn).name) \notin Functions}

IsPrefix(s, t) == Len(s) <= Len(t) /\ SubSeq(t, 1, Len(s)) = s

\* The step that handles a request for an unregistered function: no error
\* state is entered, the explanatory message is appended, and the run moves
\* on towards the next model round.
NotFoundIsSurfaced ==
    LET m == Val(assistant_message)
    IN  /\ (pc = "HaveAssistantMessage" /\ run_tools /\ ~IsNone(m.function_call)
            /\ ~IsNone(Val(m.function_call).name)
            /\ Val(Val(m.function_call).name) \notin Functions) =>
               /\ messages' = Append(messages, NotFoundFunctionMessage)
               /\ pc' = "AwaitingModel"
        /\ (pc = "HaveAssistantMessage" /\ run_tools /\ IsNone(m.function_call)
            /\ ~IsNone(m.tool_calls)) =>
               /\ pc' = "ExecutingCalls"
               /\ IsPrefix(messages, messages')
               /\ \A i \in UnregisteredToolCalls(m) :
                    \E j \in (Len(messages) + 1)..Len(messages') :
                       messages'[j] = NotFoundToolMessage(Val(m.tool_calls)[i].id)
        /\ pc = "ExecutingCalls" =>
               /\ pc' = "AwaitingModel"
               /\ IsPrefix(messages, messages')

\* C7: a request for a function that is not in the registry does not raise;
\* a result message "Could not find function to call." is appended (role
\* function on the legacy path, role tool with the call id on the tool-calls
\* path) and the run goes on to the next model round with it in the history.
C7_UnregisteredFunctionSurfaced == [][NotFoundIsSurfaced]_vars

\* A third model round has answered with both not-found messages, one of
\* each path, in the history it was sent.
C7_Witness ==
    /\ pc = "HaveAssistantMessage"
    /\ rounds = 3
    /\ \E j \in 1..Len(messages) : messages[j] = NotFoundFunctionMessage
    /\ \E j \in 1..Len(messages) : messages[j] = NotFoundToolMessage(Some(<<"c1">>))

RECURSIVE SumOfLens(_, _)
SumOfLens(d, keys) ==
    IF keys = {} THEN 0
    ELSE LET k == CHOOSE x \in keys : TRUE
         IN  Len(d[k]) + SumOfLens(d, keys \ {k})

ResponseTimesCount ==
    IF IsNone(metrics.response_times) THEN 0 ELSE Len(Val(metrics.response_times))

FunctionCallTimesCount ==
    IF IsNone(metrics.function_call_times) THEN 0
    ELSE SumOfLens(Val(metrics.function_call_times),
                   DOMAIN Val(metrics.function_call_times))

\* C8: outside a round in progress, and so after the run, response_times has
\* one entry per model round and function_call_times holds, over all function
\* names, one entry per function execution.
C8_MetricsCountRoundsAndExecutions ==
    pc # "Streaming" =>
        /\ ResponseTimesCount = rounds
        /\ FunctionCallTimesCount = executions

\* A run has ended after three rounds and two executions of the same
\* function.
C8_Witness ==
    /\ pc = "Terminal"
    /\ rounds = 3
    /\ executions = 2
    /\ ResponseTimesCount = 3
    /\ FunctionCallTimesCount = 2

\* The run of the example scenario: round one returned tool calls only, all
\* of them resolved and were executed, round two returned content and no
\* call, and the run has ended.
ToolRoundScenario ==
    /\ pc = "Terminal"
    /\ run_tools
    /\ rounds = 2
    /\ Len(messages) >= 3
    /\ messages[2].role = "assistant"
    /\ IsNone(messages[2].function_call)
    /\ ~IsNone(messages[2].tool_calls)
    /\ Val(messages[2].tool_calls) # <<>>
    /\ executions = Len(Val(messages[2].tool_calls))
    /\ ~IsNone(Val(assistant_message).content)
    /\ ~NeedToRunFunctions(Val(assistant_message))

\* The history the scenario must leave: the initial history, the assistant
\* message with the tool calls, one role-tool result per call carrying its
\* id, then the final assistant message.
ScenarioHistory ==
    LET tcs == Val(messages[2].tool_calls)
        k == Len(tcs)
    IN  /\ Len(messages) = k + 3
        /\ messages[1] = UserMessage
        /\ \A i \in 1..k :
             /\ messages[2 + i].role = "tool"
             /\ messages[2 + i].tool_call_id = tcs[i].id
             /\ ~IsNone(messages[2 + i].content)
        /\ messages[k + 3] = Val(assistant_message)
        /\ messages[k + 3].role = "assistant"

\* The "Running" narration of the scenario's calls.
ScenarioNarration ==
    LET tcs == Val(messages[2].tool_calls)
        calls == [i \in 1..Len(tcs) |->
                    [name |-> Val(Val(tcs[i].function).name),
                     arguments |-> Val(tcs[i].function).arguments]]
    IN  IF Len(calls) = 1
        THEN <<"\n - Running: ">> \o CallStr(calls[1]) \o <<"\n\n">>
        ELSE <<"\nRunning:">>
             \o Flatten([i \in 1..Len(calls) |-> <<"\n - ">> \o CallStr(calls[i])])
             \o <<"\n\n">>

C10_FallbackOnEmptyTurn ==
    (/\ pc = "Terminal"
     /\ IsNone(Val(assistant_message).content)
     /\ ~NeedToRunFunctions(Val(assistant_message))) =>
        /\ output # <<>>
        /\ <<output[Len(output)]>> = FallbackText

(***************************************************************************)
(* Properties of the assembled message (StreamSpec).                       *)
(***************************************************************************)
\* The content pieces, the function-name pieces and the function-arguments
\* pieces of a fragment sequence, concatenated in arrival order.
ContentSent(frs) ==
    Flatten([i \in 1..Len(frs) |->
               IF IsNone(frs[i].content) THEN <<>> ELSE Val(frs[i].content)])
FunctionNameSent(frs) ==
    Flatten([i \in 1..Len(frs) |->
               IF IsNone(frs[i].function_call) \/ IsNone(Val(frs[i].function_call).name)
               THEN <<>> ELSE Val(Val(frs[i].function_call).name)])
FunctionArgumentsSent(frs) ==
    Flatten([i \in 1..Len(frs) |->
               IF IsNone(frs[i].function_call)
                  \/ IsNone(Val(frs[i].function_call).arguments)
               THEN <<>> ELSE Val(Val(frs[i].function_call).arguments)])

\* C11: once the stream has ended and the message is assembled, content is
\* set iff content was sent, function_call is set iff a function name was
\* sent (and then holds the whole name and the whole arguments), and
\* tool_calls is set iff at least one tool-call record was built; a stream
\* of empty tool-call lists leaves tool_calls unset.
C11_FieldsSetIffBuffersNonEmpty ==
    pc = "HaveAssistantMessage" =>
        LET m == Val(assistant_message)
        IN  /\ ~IsNone(m.content) <=> ContentSent(pulled) # <<>>
            /\ ~IsNone(m.content) => Val(m.content) = ContentSent(pulled)
            /\ ~IsNone(m.function_call) <=> FunctionNameSent(pulled) # <<>>
            /\ ~IsNone(m.function_call) =>
                  m.function_call = Some(FunctionCallDict(FunctionNameSent(pulled),
                                                          FunctionArgumentsSent(pulled)))
            /\ ~IsNone(m.tool_calls) <=> ToolDeltas(pulled) # <<>>

(***************************************************************************)
(* Properties of the tool-calls path (Spec).                               *)
(***************************************************************************)
\* A tool call resolves when its function name is registered and its raw
\* arguments decode.
ToolCallResolves(tc) ==
    /\ ~IsNone(tc.function)
    /\ ~IsNone(Val(tc.function).name)
    /\ Val(Val(tc.function).name) \in Functions
    /\ ArgumentsDecode(Val(tc.function).arguments)
ToolCallFails(tc) == ~ToolCallResolves(tc)

\* The ids of a sequence of tool calls, of resolved calls, and the tool_call_id
\* of role-tool messages.
ToolCallIds(tcs) == [i \in 1..Len(tcs) |-> tcs[i].id]
CallIds(fcs) == [i \in 1..Len(fcs) |-> fcs[i].call_id]
ToolMessageIds(ms) == [i \in 1..Len(ms) |-> ms[i].tool_call_id]
AllRoleTool(ms) == \A i \in 1..Len(ms) : ms[i].role = "tool"

\* The messages a step appended to the history.
Appended == SubSeq(messages', Len(messages) + 1, Len(messages'))

\* The resolving step appends one role-tool message per failing call, with
\* its id, and hands the resolved calls, in list order, to execution; the
\* executing step runs what it was handed once and hands on nothing.
ToolCallsAreRouted ==
    LET m == Val(assistant_message)
    IN  /\ (pc = "HaveAssistantMessage" /\ run_tools /\ IsNone(m.function_call)
            /\ ~IsNone(m.tool_calls)) =>
               LET tcs == Val(m.tool_calls)
               IN  /\ pc' = "ExecutingCalls"
                   /\ IsPrefix(messages, messages')
                   /\ AllRoleTool(Appended)
                   /\ ToolMessageIds(Appended)
                         = ToolCallIds(SelectSeq(tcs, ToolCallFails))
                   /\ CallIds(function_calls_to_run')
                         = ToolCallIds(SelectSeq(tcs, ToolCallResolves))
        /\ pc = "ExecutingCalls" =>
               /\ IsPrefix(messages, messages')
               /\ AllRoleTool(Appended)
               /\ ToolMessageIds(Appended) = CallIds(function_calls_to_run)
               /\ function_calls_to_run' = <<>>
               /\ pc' = "AwaitingModel"

\* C12: on the tool-calls path every tool call that fails to resolve gets
\* exactly one role-tool message carrying its id and is not passed to
\* execution; every call that resolves is passed to execution once, in the
\* order of the tool_calls list.
C12_ToolCallsRouted == [][ToolCallsAreRouted]_vars

\* A round with two failing tool calls (one unregistered, one with arguments
\* that do not decode) has been resolved: two error messages, nothing to run.
C12_Witness ==
    /\ pc = "ExecutingCalls"
    /\ function_calls_to_run = <<>>
    /\ Len(messages) >= 4
    /\ messages[Len(messages) - 1] = NotFoundToolMessage(Some(<<"c1">>))
    /\ messages[Len(messages)] =
          Message("tool", Some(ArgumentErrorText), None, None, None, Some(<<"c2">>))

(***************************************************************************)
(* Properties of the call executor (Spec).                                 *)
(***************************************************************************)
\* The legacy function call of the current round resolves without error.
LegacyCallResolves ==
    LET fc == Val(Val(assistant_message).function_call)
    IN  /\ ~IsNone(fc.name)
        /\ Val(fc.name) \in Functions
        /\ ArgumentsDecode(fc.arguments)

LimitFunctionMessage ==
    Message("function", Some(LimitExceededText(function_call_limit)), None, None,
            None, None)

\* run_function is entered with a resolved call while the stack is longer than
\* the limit: the refusal is its result and the executor state is kept.
RefusalLeavesExecutorAlone ==
    (/\ pc = "HaveAssistantMessage" /\ run_tools
     /\ ~IsNone(Val(assistant_message).function_call)
     /\ LegacyCallResolves
     /\ StackLen(function_call_stack) > function_call_limit) =>
        /\ messages' = Append(messages, LimitFunctionMessage)
        /\ executions' = executions
        /\ function_call_stack' = function_call_stack
        /\ metrics'.function_call_times = metrics.function_call_times

\* C13: run_function called with a resolved call while the stack length
\* exceeds function_call_limit does not execute it: it returns the
\* role-function message "Function call limit (N) exceeded." and leaves the
\* call stack and the function_call_times metrics unchanged.
C13_RefusalSkipsExecution == [][RefusalLeavesExecutorAlone]_vars

\* A legacy call has just been refused: the limit message is the last of the
\* history and the stack is longer than the limit.
C13_Witness ==
    /\ pc = "AwaitingModel"
    /\ messages[Len(messages)] = LimitFunctionMessage
    /\ StackLen(function_call_stack) = function_call_limit + 1
    /\ executions = function_call_limit + 1

\* self.tools is set whenever a function is registered: the base class
\* registers a function together with its tool.
ToolsForApi == Functions # {}

\* api_kwargs, lines 93-98: the tool_choice sent with a model invocation.
ApiToolChoice(choice) ==
    IF ~ToolsForApi THEN None
    ELSE IF IsNone(choice) THEN Some("auto")
    ELSE choice

\* A limit-exceeded result is in the history.
LimitResultProduced == \E j \in 1..Len(messages) : IsLimitMessage(messages[j])

\* After a limit-exceeded result a model invocation is sent tool_choice
\* "none", and no step executes a function.
CallsStayDisabled ==
    LimitResultProduced =>
        /\ executions' = executions
        /\ rounds' = rounds + 1 => ApiToolChoice(tool_choice) = Some("none")
        /\ tool_choice' = Some("none")

\* C14: once a limit-exceeded result has been produced, tool_choice is "none"
\* in every later model invocation of the run and no function is executed in
\* any later round, even if the model still returns a function call.
C14_CallsDisabledAfterLimit == [][CallsStayDisabled]_vars

\* The model asked again after a refusal and was refused again.
C14_Witness ==
    /\ pc = "AwaitingModel"
    /\ tool_choice = Some("none")
    /\ rounds = 3
    /\ Cardinality({j \in 1..Len(messages) : IsLimitMessage(messages[j])}) = 2

(***************************************************************************)
(* Several top-level runs on one orchestrator object (RerunSpec).          *)
(***************************************************************************)
\* Rounds the object may have made before a further top-level run is started.
MaxPriorRounds == 1

\* The caller invokes response / response_stream again on the same object
\* with a fresh history (lines 183-191, 369-382).  The locals of the call are
\* new; self.metrics, self.function_call_stack and self.tool_choice are
\* attributes of the object and no line of the entry points touches them.
StartRun ==
    /\ pc = "Terminal"
    /\ ~IsNone(metrics.response_times)
    /\ Len(Val(metrics.response_times)) <= MaxPriorRounds
    /\ pc' = "AwaitingModel"
    /\ messages' = <<UserMessage>>
    /\ assistant_message' = None
    /\ output' = <<>>
    /\ function_calls_to_run' = <<>>
    /\ rounds' = 0
    /\ executions' = 0
    /\ stream' = <<>>
    /\ assistant_message_content' = <<>>
    /\ assistant_message_function_name' = <<>>
    /\ assistant_message_function_arguments_str' = <<>>
    /\ assistant_message_tool_calls' = None
    /\ completion_tokens' = 0
    /\ pulled' = <<>>
    /\ UNCHANGED <<config, metrics, function_call_stack, tool_choice>>

RerunNext ==
    \/ Next
    \/ StartRun

RerunSpec == Init /\ [][RerunNext]_vars

\* One metrics value extends another: no key is lost, no list shortened or
\* rewritten, no total decreased.
ListExtends(old, new) == IsNone(old) \/ (~IsNone(new) /\ IsPrefix(Val(old), Val(new)))
TotalExtends(old, new) == IsNone(old) \/ (~IsNone(new) /\ Val(old) <= Val(new))
FunctionTimesExtend(old, new) ==
    IsNone(old) \/
    (/\ ~IsNone(new)
     /\ DOMAIN Val(old) \subseteq DOMAIN Val(new)
     /\ \A n \in DOMAIN Val(old) : IsPrefix(Val(old)[n], Val(new)[n]))
MetricsExtend(old, new) ==
    /\ ListExtends(old.response_times, new.response_times)
    /\ FunctionTimesExtend(old.function_call_times, new.function_call_times)
    /\ TotalExtends(old.prompt_tokens, new.prompt_tokens)
    /\ TotalExtends(old.completion_tokens, new.completion_tokens)
    /\ TotalExtends(old.total_tokens, new.total_tokens)

\* The first model invocation of a run finds the accumulator empty, and a
\* step inside a run only extends it.
MetricsPerRun ==
    /\ (pc = "AwaitingModel" /\ rounds = 0) => metrics = EmptyMetrics
    /\ pc # "Terminal" => MetricsExtend(metrics, metrics')

\* C15: at the start of every top-level run the metrics accumulator is
\* empty, so that after a second run on the same object it reflects that run
\* only; and during a run no entry is removed or decreased.
C15_MetricsEmptyAtRunStart == [][MetricsPerRun]_vars

(***************************************************************************)
(* The structured modes: generate, lines 298-367, and generate_stream,     *)
(* lines 538-669 (GenerateSpec).                                           *)
(***************************************************************************)
InitGenerate ==
    /\ mode \in {"generate", "generate_stream"}
    /\ function_call_limit \in 0..MaxLimit
    /\ show_tool_calls \in BOOLEAN
    /\ run_tools \in BOOLEAN
    /\ pc = "AwaitingModel"
    /\ InitRun
    /\ InitLocals

\* Lines 298-367: one model round; the raw message is returned.
Generate ==
    /\ pc = "AwaitingModel"
    /\ mode = "generate"
    /\ \E r \in ModelResponses :
         LET m == Message("assistant", r.content, None, r.function_call,
                          r.tool_calls, None)
         IN  /\ assistant_message' = Some(m)
             /\ metrics' = AddUsage(AddResponseTime(metrics), r.usage)
             /\ messages' = Append(messages, m)
             /\ output' = <<Fragment(r.content, r.function_call, r.tool_calls)>>
    /\ rounds' = rounds + 1
    /\ pc' = "Terminal"
    /\ UNCHANGED <<config, locals, function_call_stack, tool_choice,
                   function_calls_to_run, executions>>

\* Lines 544-551: the buffers are reset and the stream is opened.
GenerateStreamStart ==
    /\ pc = "AwaitingModel"
    /\ mode = "generate_stream"
    /\ \E r \in ModelResponses : stream' = ToFragments(r)
    /\ assistant_message_content' = <<>>
    /\ assistant_message_function_name' = <<>>
    /\ assistant_message_function_arguments_str' = <<>>
    /\ assistant_message_tool_calls' = None
    /\ completion_tokens' = 0
    /\ pulled' = <<>>
    /\ rounds' = rounds + 1
    /\ pc' = "GenerateStreaming"
    /\ UNCHANGED <<config, messages, assistant_message, function_call_stack,
                   metrics, tool_choice, output, function_calls_to_run,
                   executions>>

\* Lines 551-581: one fragment is merged into the buffers and yielded raw.
GenerateStreamPull ==
    /\ pc = "GenerateStreaming"
    /\ stream # <<>>
    /\ LET frag == Head(stream)
           b == Accumulate(Buffers, frag)
       IN  /\ completion_tokens' = completion_tokens + 1
           /\ assistant_message_content' = b.content
           /\ assistant_message_function_name' = b.function_name
           /\ assistant_message_function_arguments_str' = b.function_arguments_str
           /\ assistant_message_tool_calls' = b.tool_calls
           /\ output' = Append(output, frag)
           /\ pulled' = Append(pulled, frag)
    /\ stream' = Tail(stream)
    /\ UNCHANGED <<config, pc, messages, assistant_message, function_call_stack,
                   metrics, tool_choice, function_calls_to_run, rounds, executions>>

\* Lines 583-669: the message is assembled and appended; generate_stream ends.
GenerateStreamEnd ==
    /\ pc = "GenerateStreaming"
    /\ stream = <<>>
    /\ IF AssembleRaises(assistant_message_tool_calls)
       THEN /\ pc' = "TypeError"
            /\ UNCHANGED <<assistant_message, metrics, messages>>
       ELSE LET m == AssembleMessage(Buffers)
            IN  /\ assistant_message' = Some(m)
                /\ metrics' = AddUsage(AddResponseTime(metrics),
                                       Usage(0, completion_tokens))
                /\ messages' = Append(messages, m)
                /\ pc' = "Terminal"
    /\ UNCHANGED <<config, locals, function_call_stack, tool_choice, output,
                   function_calls_to_run, rounds, executions>>

GenerateNext ==
    \/ Generate
    \/ GenerateStreamStart
    \/ GenerateStreamPull
    \/ GenerateStreamEnd

GenerateSpec == InitGenerate /\ [][GenerateNext]_vars

\* The assistant message asks for a call: a function call, or a tool call.
RequestsCall(m) ==
    \/ ~IsNone(m.function_call)
    \/ (~IsNone(m.tool_calls) /\ Val(m.tool_calls) # <<>>)

\* C16: in the structured modes, as in the text modes, a run with run_tools
\* enabled ends only after a round that requests no call: every assistant
\* message that requests a call is followed in the history by a result
\* message, and the last assistant message requests none.
C16_GenerateOrchestrates ==
    (pc = "Terminal" /\ run_tools) =>
        /\ ~RequestsCall(Val(assistant_message))
        /\ \A i \in AssistantIndexes :
             RequestsCall(messages[i]) =>
                /\ i < Len(messages)
                /\ messages[i + 1].role \in {"function", "tool"}

(***************************************************************************)
(* Properties of the legacy single function-call path (Spec).              *)
(***************************************************************************)
\* The content of the result message for each outcome of run_function.
LegacyResultContent ==
    LET fc == Val(Val(assistant_message).function_call)
    IN  IF IsNone(fc.name) THEN NameIsNoneText
        ELSE IF Val(fc.name) \notin Functions THEN NotFoundText
        ELSE IF ~ArgumentsDecode(fc.arguments) THEN ArgumentErrorText
        ELSE IF StackLen(function_call_stack) > function_call_limit
        THEN LimitExceededText(function_call_limit)
        ELSE <<"result of ">> \o Val(fc.name)

\* The legacy step appends one role-function message, the one of its
\* outcome, and hands the extended history to the next model round.
LegacyStepAppendsOneResult ==
    (pc = "HaveAssistantMessage" /\ run_tools
     /\ ~IsNone(Val(assistant_message).function_call)) =>
        /\ Len(messages') = Len(messages) + 1
        /\ IsPrefix(messages, messages')
        /\ messages'[Len(messages')].role = "function"
        /\ messages'[Len(messages')].content = Some(LegacyResultContent)
        /\ pc' = "AwaitingModel"

\* C17: on the legacy path every round whose assistant message carries a
\* function_call appends exactly one role-function result message before the
\* next model round, whatever the outcome of run_function (name is None, not
\* found, argument error, limit exceeded, executed), and recurses with the
\* extended history.
C17_LegacyAppendsOneResult == [][LegacyStepAppendsOneResult]_vars

\* Two legacy rounds have been handled, one with a function call without a
\* name, one with arguments that do not decode.
C17_Witness ==
    /\ pc = "AwaitingModel"
    /\ rounds = 2
    /\ Len(messages) = 5
    /\ messages[3] = Message("function", Some(NameIsNoneText), None, None, None, None)
    /\ messages[5] = Message("function", Some(ArgumentErrorText), None, None, None, None)

(***************************************************************************)
(* Properties of the history (Spec).                                       *)
(***************************************************************************)
IsResultMessage(m) == m.role \in {"function", "tool"}

\* The calls an assistant message has run for it: one on the legacy path,
\* one per tool call on the tool-calls path.
CallsOf(m) ==
    IF ~IsNone(m.function_call) THEN 1
    ELSE IF ~IsNone(m.tool_calls) THEN Len(Val(m.tool_calls))
    ELSE 0

\* The history a model invocation is sent: after round r it ends with the
\* assistant message of round r followed by one result message per call.
HistoryCompleteForNextRound ==
    (rounds > 0 /\ run_tools) =>
        LET a == LastAssistantIndex
        IN  /\ messages[a] = Val(assistant_message)
            /\ Len(messages) = a + CallsOf(messages[a])
            /\ \A j \in (a + 1)..Len(messages) : IsResultMessage(messages[j])

\* Every step extends the history; the step that ends a model round appends
\* the assistant message and nothing else; result messages are appended only
\* after it; a model invocation is sent the complete history.
HistoryIsAppendOnly ==
    /\ IsPrefix(messages, messages')
    /\ (pc' = "HaveAssistantMessage" /\ pc # "HaveAssistantMessage") =>
          /\ Len(messages') = Len(messages) + 1
          /\ messages'[Len(messages')].role = "assistant"
          /\ assistant_message' = Some(messages'[Len(messages')])
    /\ pc \in {"HaveAssistantMessage", "ExecutingCalls"} =>
          /\ messages[LastAssistantIndex] = Val(assistant_message)
          /\ \A j \in (Len(messages) + 1)..Len(messages') :
                IsResultMessage(messages'[j])
    /\ (pc = "AwaitingModel" /\ rounds' = rounds + 1) => HistoryCompleteForNextRound

\* C18: the history is append-only during a run; each model round appends
\* exactly one assistant message before any result message of the round; and
\* the invocation of round r+1 is sent the whole history, with the assistant
\* message and every result message of round r.
C18_HistoryAppendOnly == [][HistoryIsAppendOnly]_vars

\* The third round is about to be invoked with the history of a tool round
\* of two calls and of a legacy round.
C18_Witness ==
    /\ pc = "AwaitingModel"
    /\ rounds = 2
    /\ Len(messages) = 6
    /\ messages[2].role = "assistant"
    /\ messages[3].role = "tool" /\ messages[4].role = "tool"
    /\ messages[5].role = "assistant"
    /\ messages[6].role = "function"

(***************************************************************************)
(* Alternation of model rounds and tool-execution rounds (Spec).           *)
(***************************************************************************)
\* A model invocation is in progress: its fragments are being consumed.
ModelRoundInProgress == pc = "Streaming"

\* The calls of the round are being resolved or executed.
ToolRoundInProgress == pc \in {"HaveAssistantMessage", "ExecutingCalls"}

\* A step resolves or executes a call.
TouchesCalls ==
    \/ executions' # executions
    \/ function_calls_to_run' # function_calls_to_run
    \/ function_call_stack' # function_call_stack
    \/ \E j \in (Len(messages) + 1)..Len(messages') : IsResultMessage(messages'[j])

RoundsAlternate ==
    /\ ModelRoundInProgress => ~TouchesCalls
    /\ TouchesCalls =>
          /\ ToolRoundInProgress
          /\ stream = <<>>
          /\ messages[LastAssistantIndex] = Val(assistant_message)
    /\ ToolRoundInProgress => (rounds' = rounds /\ stream' = stream)
    /\ rounds' = rounds + 1 =>
          /\ pc = "AwaitingModel"
          /\ function_calls_to_run = <<>>
          /\ rounds > 0 =>
                Cardinality({j \in 1..Len(messages) : IsResultMessage(messages[j])})
                   >= executions

\* C19: model rounds and tool-execution rounds alternate and never overlap:
\* no call is resolved or executed while a model invocation is in progress
\* (when streaming, the fragments of the round are all consumed and the
\* assistant message appended first), and the next invocation starts only
\* after every call of the round has been executed and its result appended.
C19_RoundsAlternate == [][RoundsAlternate]_vars

\* A streamed round of two tool calls has been consumed and resolved; its
\* calls are about to be executed.
C19_Witness ==
    /\ mode = "stream"
    /\ pc = "ExecutingCalls"
    /\ stream = <<>>
    /\ Len(function_calls_to_run) = 2
    /\ Len(pulled) >= 4

(***************************************************************************)
(* Order of the text output (Spec).                                        *)
(***************************************************************************)
\* The call named by a descriptor, as narrated.
DescriptorCall(fn) == [name |-> Val(fn.name), arguments |-> fn.arguments]

\* The narration owed to one assistant message whose calls are run: one line
\* for a single call, a header and one bullet per call for several, nothing
\* when no call resolves.
NarrationOf(m) ==
    IF ~IsNone(m.function_call)
    THEN IF ~IsNone(Val(m.function_call).name)
            /\ Val(Val(m.function_call).name) \in Functions
         THEN <<"\n - Running: ">> \o CallStr(DescriptorCall(Val(m.function_call)))
              \o <<"\n\n">>
         ELSE <<>>
    ELSE IF IsNone(m.tool_calls) THEN <<>>
    ELSE LET tcs == SelectSeq(Val(m.tool_calls), ToolCallResolves)
         IN  IF tcs = <<>> THEN <<>>
             ELSE IF Len(tcs) = 1
             THEN <<"\n - Running: ">> \o CallStr(DescriptorCall(Val(tcs[1].function)))
                  \o <<"\n\n">>
             ELSE <<"\nRunning:">>
                  \o Flatten([i \in 1..Len(tcs) |->
                        <<"\n - ">> \o CallStr(DescriptorCall(Val(tcs[i].function)))])
                  \o <<"\n\n">>

ContentOf(m) == IF IsNone(m.content) THEN <<>> ELSE Val(m.content)

\* The text owed after the rounds in the history.  Streaming: per round, its
\* content, then its narration.  Batch: the narrations only, the content of
\* the final round being added when the run ends.
ExpectedOutput(final) ==
    LET owed(i) ==
          (IF mode = "stream" THEN ContentOf(messages[i]) ELSE <<>>)
          \o (IF run_tools /\ ~(final /\ i = Len(messages))
              THEN NarrationOf(messages[i]) ELSE <<>>)
    IN  Flatten([i \in 1..Len(messages) |->
                   IF messages[i].role = "assistant" THEN owed(i) ELSE <<>>])

LastSupplied(ds, index, Field(_)) ==
    LET supplied == {i \in PositionsOf(ds, index) : ~IsNone(Field(ds[i]))}
    IN  IF supplied = {} THEN None
        ELSE Field(ds[CHOOSE i \in supplied : \A j \in supplied : j <= i])
DeltaId(d) == d.id
DeltaType(d) == d.type

\* Some fragment of the index supplied an arguments piece.
ArgumentsSupplied(ds, index) ==
    \E i \in PositionsOf(ds, index) : ~IsNone(DeltaFunctionArguments(ds[i]))

\* The record at the list position of an index keeps the last supplied id
\* and type of that index, and all of its arguments pieces.
RecordKeepsIdAndType(tool_calls, ds, index) ==
    LET rec == tool_calls[index + 1]
    IN  /\ rec.id = LastSupplied(ds, index, DeltaId)
        /\ rec.type = LastSupplied(ds, index, DeltaType)
        /\ ArgumentsSupplied(ds, index) =>
              /\ ~IsNone(rec.function)
              /\ Val(rec.function).arguments = Some(ArgumentPieces(ds, index))

\* C21: in the assembled record of a tool-call index, id and type are the
\* last non-absent values supplied by the fragments of that index; a later
\* fragment without id or type changes neither, and an id arriving after
\* arguments pieces is stored without losing them.
C21_IdAndTypeLastSupplied ==
    LET ds == ToolDeltas(pulled)
    IN  (pc = "HaveAssistantMessage" /\ OnlyToolPieces(pulled)) =>
            \A index \in IndexesOf(ds) :
                Len(Val(Val(assistant_message).tool_calls)) > index =>
                    RecordKeepsIdAndType(Val(Val(assistant_message).tool_calls),
                                         ds, index)

\* The indices first appear in the order 0, 1, ...
FirstAppearInOrder(ds) ==
    /\ IndexesOf(ds) = 0..(Cardinality(IndexesOf(ds)) - 1)
    /\ \A i, j \in 1..Len(ds) :
         (i < j /\ \A k \in 1..(j - 1) : ds[k].index # ds[j].index)
            => ds[i].index < ds[j].index

\* Some fragment of the index supplied a name piece.
NameSupplied(ds, index) ==
    \E i \in PositionsOf(ds, index) : ~IsNone(DeltaFunctionName(ds[i]))

\* The record of an index holds the name pieces and the arguments pieces
\* that were supplied for it.
RecordHoldsSupplied(tool_calls, ds, index) ==
    /\ Len(tool_calls) > index
    /\ LET rec == tool_calls[index + 1]
       IN  /\ NameSupplied(ds, index) =>
                 /\ ~IsNone(rec.function)
                 /\ Val(rec.function).name = Some(NamePieces(ds, index))
           /\ ArgumentsSupplied(ds, index) =>
                 /\ ~IsNone(rec.function)
                 /\ Val(rec.function).arguments = Some(ArgumentPieces(ds, index))

\* C22: for tool-call fragments whose indices first appear in order, the
\* assembly ends without raising, also when the first fragment of an index
\* has no function part, or a name without arguments, or arguments without a
\* name, and later fragments supply what was missing; the record then holds
\* the concatenation of the pieces supplied.
C22_PartialFirstFragments ==
    LET ds == ToolDeltas(pulled)
    IN  (pc # "Streaming" /\ OnlyToolPieces(pulled) /\ FirstAppearInOrder(ds)) =>
            /\ pc = "HaveAssistantMessage"
            /\ \A index \in IndexesOf(ds) :
                 RecordHoldsSupplied(Val(Val(assistant_message).tool_calls), ds, index)

(***************************************************************************)
(* Batch and streaming runs over the same rounds (Spec).                   *)
(***************************************************************************)
\* The result messages owed to one assistant message, and the executor state
\* after them, as the round computes them from st = [stack, metrics,
\* tool_choice].
RoundResults(m, st) ==
    IF ~IsNone(m.function_call)
    THEN LET r == RunFunction(st, Val(m.function_call), function_call_limit)
         IN  [results |-> <<r.message>>,
              state |-> [stack |-> r.stack, metrics |-> r.metrics,
                         tool_choice |-> r.tool_choice]]
    ELSE IF ~IsNone(m.tool_calls)
    THEN LET res == ResolveAll([errors |-> <<>>, to_run |-> <<>>], Val(m.tool_calls))
             r == RunFunctionCalls([results |-> <<>>, stack |-> st.stack,
                                    metrics |-> st.metrics,
                                    tool_choice |-> st.tool_choice, executed |-> 0],
                                   res.to_run, function_call_limit)
         IN  [results |-> res.errors \o r.results,
              state |-> [stack |-> r.stack, metrics |-> r.metrics,
                         tool_choice |-> r.tool_choice]]
    ELSE [results |-> <<>>, state |-> st]

\* From position i on, the history is assistant messages each followed by
\* exactly the result messages owed to it: the history is a function of the
\* rounds and of the configuration, whatever the mode.
RECURSIVE HistoryFollowsRoundsFrom(_, _)
HistoryFollowsRoundsFrom(i, st) ==
    IF i > Len(messages) THEN TRUE
    ELSE /\ messages[i].role = "assistant"
         /\ IF ~run_tools THEN i = Len(messages)
            ELSE LET r == RoundResults(messages[i], st)
                     n == Len(r.results)
                 IN  /\ i + n <= Len(messages)
                     /\ SubSeq(messages, i + 1, i + n) = r.results
                     /\ HistoryFollowsRoundsFrom(i + n + 1, r.state)

HistoryFollowsRounds ==
    HistoryFollowsRoundsFrom(2, [stack |-> None, metrics |-> EmptyMetrics,
                                 tool_choice |-> None])

\* The string response returns for the rounds in the history: the narration
\* of every round whose calls were run, in order, then the content of the
\* last round, or the fallback string.
BatchReturnOf ==
    LET last == messages[LastAssistantIndex]
    IN  Flatten([i \in 1..Len(messages) |->
                   IF messages[i].role = "assistant" /\ run_tools /\ show_tool_calls
                   THEN NarrationOf(messages[i]) ELSE <<>>])
        \o (IF IsNone(last.content) THEN FallbackText ELSE Val(last.content))

\* C23: over the same rounds response and response_stream append the same
\* messages, and what response_stream yields, concatenated, is the string
\* response returns: in either mode the ended run has the history owed to
\* its rounds and the text response returns for them.
C23_BatchStreamEquivalence ==
    pc = "Terminal" =>
        /\ HistoryFollowsRounds
        /\ output = BatchReturnOf

(***************************************************************************)
(* A message with both a function call and tool calls (Spec).              *)
(***************************************************************************)
CarriesBoth(m) == ~IsNone(m.function_call) /\ ~IsNone(m.tool_calls)

\* The round of a message with both: one role-function message is appended,
\* no tool call is handed to execution, at most the one legacy call is
\* executed, and the next model round follows.
OnlyLegacyProcessed ==
    (pc = "HaveAssistantMessage" /\ run_tools /\ CarriesBoth(Val(assistant_message))) =>
        /\ Len(messages') = Len(messages) + 1
        /\ IsPrefix(messages, messages')
        /\ messages'[Len(messages')].role = "function"
        /\ IsNone(messages'[Len(messages')].tool_call_id)
        /\ function_calls_to_run' = <<>>
        /\ executions' \in {executions, executions + 1}
        /\ pc' = "AwaitingModel"

\* C24: when an assistant message carries both a legacy function_call and
\* tool_calls, only the function call is processed in that round: exactly one
\* role-function result is appended, no tool call is resolved or executed, and
\* no role-tool message is appended before the next model round.
C24_LegacyTakesPrecedence == [][OnlyLegacyProcessed]_vars

\* The round of a message with both has been handled: the history ends with
\* that message and one role-function result, and the tool call was not run.
C24_Witness ==
    /\ pc = "AwaitingModel"
    /\ rounds = 1
    /\ Len(messages) = 3
    /\ CarriesBoth(messages[2])
    /\ messages[3].role = "function"
    /\ executions = 1

(***************************************************************************)
(* The executor's effect on the stack and on function_call_times (Spec).   *)
(***************************************************************************)
StackOf(stack) == IF IsNone(stack) THEN <<>> ELSE Val(stack)

TimesUnder(m, name) ==
    IF IsNone(m.function_call_times) THEN <<>>
    ELSE IF name \in DOMAIN Val(m.function_call_times)
         THEN Val(m.function_call_times)[name]
         ELSE <<>>

\* run_function is entered: an execution pushes one entry for the call and
\* appends one timing under its name; every other outcome keeps both.
RunFunctionFrame ==
    (pc = "HaveAssistantMessage" /\ run_tools
     /\ ~IsNone(Val(assistant_message).function_call)) =>
        LET fc == Val(Val(assistant_message).function_call)
        IN  IF LegacyCallResolves /\ ~(StackLen(function_call_stack) > function_call_limit)
            THEN /\ executions' = executions + 1
                 /\ Len(StackOf(function_call_stack')) = StackLen(function_call_stack) + 1
                 /\ IsPrefix(StackOf(function_call_stack), StackOf(function_call_stack'))
                 /\ StackOf(function_call_stack')[StackLen(function_call_stack')].name
                        = Val(fc.name)
                 /\ TimesUnder(metrics', Val(fc.name))
                        = Append(TimesUnder(metrics, Val(fc.name)), Elapsed)
                 /\ \A n \in Functions \ {Val(fc.name)} :
                        TimesUnder(metrics', n) = TimesUnder(metrics, n)
            ELSE /\ executions' = executions
                 /\ function_call_stack' = function_call_stack
                 /\ metrics'.function_call_times = metrics.function_call_times

StackNeverShrinks ==
    IsPrefix(StackOf(function_call_stack), StackOf(function_call_stack'))

StackMatchesTimings == StackLen(function_call_stack) = FunctionCallTimesCount

\* C25: run_function changes the call stack and function_call_times only when
\* it executes a call: an execution appends one entry to the stack and one
\* timing under the function's name, the outcomes name-is-None, not-found,
\* argument-error and limit-exceeded leave both unchanged; from the empty
\* state the stack length equals the total number of function_call_times
\* entries, and the stack never shrinks.
C25_StackAndTimingsMoveTogether ==
    /\ []StackMatchesTimings
    /\ [][RunFunctionFrame /\ StackNeverShrinks]_vars

\* One legacy call was executed and the next one was refused at the limit:
\* the stack and the timings both hold the one executed call.
C25_Witness ==
    /\ pc = "AwaitingModel"
    /\ rounds = 2
    /\ executions = 1
    /\ messages[Len(messages)] = LimitFunctionMessage
    /\ StackLen(function_call_stack) = 1
    /\ Len(TimesUnder(metrics, <<"f">>)) = 1

(***************************************************************************)
(* Narration on the legacy path against what was executed (Spec).          *)
(***************************************************************************)
\* A legacy step with show_tool_calls set adds text to the output only when it
\* executed the call, and then the text is the "Running" line of that call.
LegacyNarrationOnlyWhenExecuted ==
    (pc = "HaveAssistantMessage" /\ run_tools /\ show_tool_calls
     /\ ~IsNone(Val(assistant_message).function_call)) =>
        IF executions' = executions + 1
        THEN output' = output \o NarrationOne(
                 StackOf(function_call_stack')[StackLen(function_call_stack')])
        ELSE output' = output

\* C26: on the legacy function-call path with show_tool_calls enabled, a
\* "Running: <call>" narration is emitted only for a call that was executed in
\* that round; a call refused because of the call limit or carrying a
\* resolution error produces no "Running:" narration.
C26_NarrationOnlyForExecuted == [][LegacyNarrationOnlyWhenExecuted]_vars

\* The part that holds: an executed legacy call is narrated, and a call that
\* does not resolve to a FunctionCall (name None, not registered) is not.
LegacyNarrationWhenResolved ==
    (pc = "HaveAssistantMessage" /\ run_tools /\ show_tool_calls
     /\ ~IsNone(Val(assistant_message).function_call)) =>
        LET fc == Val(Val(assistant_message).function_call)
        IN  IF ~IsNone(fc.name) /\ Val(fc.name) \in Functions
            THEN output' = output \o NarrationOne(Val(GetFunctionCall(Val(fc.name),
                                                       fc.arguments, None)))
            ELSE output' = output

C26_NarrationFollowsResolution == [][LegacyNarrationWhenResolved]_vars

(***************************************************************************)
(* Token metrics of streamed rounds (Spec, stream mode; GenerateSpec).     *)
(***************************************************************************)
TokensOf(total) == IF IsNone(total) THEN 0 ELSE Val(total)

\* A streamed round completes: the stream has ended and the message is built.
StreamRoundCompletes ==
    /\ pc \in {"Streaming", "GenerateStreaming"}
    /\ stream = <<>>
    /\ pc' # "TypeError"

\* The round that completes records the number of fragments it pulled as its
\* completion_tokens, 0 as its prompt_tokens and their sum as its
\* total_tokens, and adds each to the accumulator; no other step of a
\* streaming run changes the accumulated tokens.
StreamRoundCountsFragments ==
    IF StreamRoundCompletes
    THEN LET usage == Val(Usage(0, completion_tokens))
         IN  /\ usage.completion_tokens = Len(pulled)
             /\ usage.prompt_tokens = 0
             /\ usage.total_tokens = usage.prompt_tokens + usage.completion_tokens
             /\ metrics'.prompt_tokens = Some(TokensOf(metrics.prompt_tokens))
             /\ metrics'.completion_tokens =
                    Some(TokensOf(metrics.completion_tokens) + Len(pulled))
             /\ metrics'.total_tokens =
                    Some(TokensOf(metrics.total_tokens) + Len(pulled))
    ELSE mode \in {"stream", "generate_stream"} =>
             /\ metrics'.prompt_tokens = metrics.prompt_tokens
             /\ metrics'.completion_tokens = metrics.completion_tokens
             /\ metrics'.total_tokens = metrics.total_tokens

\* In a streaming run the accumulated totals agree with each other.
StreamTotalsAgree ==
    mode \in {"stream", "generate_stream"} =>
        /\ TokensOf(metrics.prompt_tokens) = 0
        /\ TokensOf(metrics.total_tokens) =
               TokensOf(metrics.prompt_tokens) + TokensOf(metrics.completion_tokens)
        /\ (rounds = 0 => IsNone(metrics.completion_tokens))

\* C27: in streaming modes the token metrics of every round are derived from
\* the fragment count: completion_tokens is the number of fragments pulled in
\* the round, prompt_tokens is 0, total_tokens is their sum; in a run of
\* streaming rounds that starts with empty metrics the accumulator satisfies
\* total_tokens = prompt_tokens + completion_tokens = the number of fragments
\* pulled in completed rounds.
C27_StreamTokensCountFragments ==
    /\ []StreamTotalsAgree
    /\ [][StreamRoundCountsFragments]_vars

\* Two streamed rounds have completed: the accumulator holds the fragments of
\* both, more than the round just completed pulled.
C27_Witness ==
    /\ mode = "stream"
    /\ pc = "HaveAssistantMessage"
    /\ rounds = 2
    /\ Len(pulled) = 3
    /\ metrics.prompt_tokens = Some(0)
    /\ metrics.completion_tokens = Some(5)
    /\ metrics.total_tokens = Some(5)

====
